---- MODULE Spec2Model ----
(***************************************************************************)
(* Model of tools/build-manifest.js: the directive parser (parseScript),   *)
(* the directory walk (walkDir) and the manifest builder (buildManifest).  *)
(*                                                                         *)
(* Text is a sequence of one-character strings, so that trim, startsWith,  *)
(* endsWith and the three regular expressions are computed character by    *)
(* character as the JavaScript does.                                       *)
(***************************************************************************)
EXTENDS Integers, Sequences, FiniteSets, TLC

(***************************************************************************)
(* Characters and elementary string functions                              *)
(***************************************************************************)

\* JavaScript null.  Text values are sequences of one-character strings, so
\* this one-element sequence holding a longer string is no text value.
NULL == <<"null">>

\* \s of a JavaScript regular expression; String.prototype.trim strips the
\* same set.  A line never holds "\n": parseScript splits on it.
IsSpace(c) == c \in {" ", "\t", "\r"}

\* . of a JavaScript regular expression: anything but a line terminator.
IsDot(c) == c \notin {"\n", "\r"}

\* \w of a JavaScript regular expression.
IsWord(c) ==
    c \in { "a","b","c","d","e","f","g","h","i","j","k","l","m",
            "n","o","p","q","r","s","t","u","v","w","x","y","z",
            "A","B","C","D","E","F","G","H","I","J","K","L","M",
            "N","O","P","Q","R","S","T","U","V","W","X","Y","Z",
            "0","1","2","3","4","5","6","7","8","9","_" }

\* [\w-] of ARG_RE.
IsWordOrDash(c) == IsWord(c) \/ c = "-"

\* [^"] of ARG_RE and ENV_RE.
IsNotQuote(c) == c /= "\""

\* The character classes the patterns repeat, by name.
InClass(class, c) ==
    CASE class = "space" -> IsSpace(c)
      [] class = "nonspace" -> ~IsSpace(c)
      [] class = "word" -> IsWord(c)
      [] class = "wordOrDash" -> IsWordOrDash(c)
      [] class = "notQuote" -> IsNotQuote(c)
      [] class = "dot" -> IsDot(c)

\* The last index j >= i-1 such that every character of s[i..j] is in the
\* class: where a greedy run class* that starts at index i ends.
RunEnd(s, i, class) ==
    CHOOSE j \in (i - 1)..Len(s) :
        /\ \A k \in i..j : InClass(class, s[k])
        /\ (j = Len(s) \/ ~InClass(class, s[j + 1]))

\* String.prototype.startsWith
StartsWith(s, p) == Len(s) >= Len(p) /\ SubSeq(s, 1, Len(p)) = p

\* String.prototype.endsWith
EndsWith(s, p) ==
    Len(s) >= Len(p) /\ SubSeq(s, Len(s) - Len(p) + 1, Len(s)) = p

\* String.prototype.trim
Trim(s) ==
    LET a == RunEnd(s, 1, "space") + 1
    IN  IF a > Len(s) THEN <<>>
        ELSE LET b == CHOOSE j \in a..Len(s) :
                          /\ ~IsSpace(s[j])
                          /\ \A k \in (j + 1)..Len(s) : IsSpace(s[k])
             IN  SubSeq(s, a, b)

\* The substring s[i..] (String.prototype.slice with one argument, 1-based).
From(s, i) == SubSeq(s, i, Len(s))

\* String.prototype.split with a one-character separator.
RECURSIVE SplitOn(_, _)
SplitOn(s, sep) ==
    IF \A k \in 1..Len(s) : s[k] /= sep THEN <<s>>
    ELSE LET i == CHOOSE k \in 1..Len(s) :
                      s[k] = sep /\ \A h \in 1..(k - 1) : s[h] /= sep
         IN  <<SubSeq(s, 1, i - 1)>> \o SplitOn(From(s, i + 1), sep)

\* String.prototype.split(/\s+/) on a trimmed, non-empty value.
RECURSIVE SplitSpaces(_)
SplitSpaces(s) ==
    LET e == RunEnd(s, 1, "nonspace")
    IN  IF e = Len(s) THEN <<s>>
        ELSE <<SubSeq(s, 1, e)>>
                 \o SplitSpaces(From(s, RunEnd(s, e + 1, "space") + 1))

\* Array.prototype.join with a separator text.
RECURSIVE Join(_, _)
Join(parts, sep) ==
    IF parts = <<>> THEN <<>>
    ELSE IF Len(parts) = 1 THEN parts[1]
    ELSE parts[1] \o sep \o Join(Tail(parts), sep)

(***************************************************************************)
(* Literal texts of the source                                             *)
(***************************************************************************)

T_name == <<"n","a","m","e">>
T_description == <<"d","e","s","c","r","i","p","t","i","o","n">>
T_arg == <<"a","r","g">>
T_dep == <<"d","e","p">>
T_env == <<"e","n","v">>
T_output == <<"o","u","t","p","u","t">>
T_header == <<"h","e","a","d","e","r">>
T_category == <<"c","a","t","e","g","o","r","y">>
T_tag == <<"t","a","g">>
T_author == <<"a","u","t","h","o","r">>
T_platform == <<"p","l","a","t","f","o","r","m">>
T_example == <<"e","x","a","m","p","l","e">>
T_stdin == <<"s","t","d","i","n">>
T_version == <<"v","e","r","s","i","o","n">>
T_string == <<"s","t","r","i","n","g">>
T_number == <<"n","u","m","b","e","r">>
T_boolean == <<"b","o","o","l","e","a","n">>
T_text == <<"t","e","x","t">>
T_all == <<"a","l","l">>
T_true == <<"t","r","u","e">>
T_hash == <<"#">>
T_shebang == <<"#","!">>
T_question == <<"?">>
T_ellipsis == <<".",".",".">>
T_sh == <<".","s","h">>
T_underscore == <<"_">>
T_missingName == <<":"," ","m","i","s","s","i","n","g"," ","@","n","a","m","e">>
T_missingDescription == <<":"," ","m","i","s","s","i","n","g"," ","@","d","e","s","c","r","i","p","t","i","o","n">>

(***************************************************************************)
(* The three regular expressions                                           *)
(***************************************************************************)

\* Mutant of MarkerLen: the marker // is accepted beside #.
MarkerLenEither(t) ==
    IF StartsWith(t, <<"#">>) THEN 1
    ELSE IF StartsWith(t, <<"/", "/">>) THEN 2 ELSE 0

\* The comment marker DIRECTIVE_RE accepts at the start of a trimmed line:
\* the number of characters it takes, 0 when the line has none.
MarkerLen(t) == IF StartsWith(t, T_hash) THEN 1 ELSE 0

\* trimmed.match(DIRECTIVE_RE), DIRECTIVE_RE = /^#\s*@(\w+)\s+(.*)/ .
\* Every quantifier is greedy and none can give characters back to a later
\* part of the pattern, so each run is the maximal one.
MatchDirective(t) ==
    LET k == MarkerLen(t)
        i == RunEnd(t, k + 1, "space") + 1
        e == RunEnd(t, i + 1, "word")
        f == RunEnd(t, e + 1, "space")
        g == RunEnd(t, f + 1, "dot")
    IN  IF /\ k > 0
           /\ i <= Len(t) /\ t[i] = "@"
           /\ e >= i + 1
           /\ f >= e + 1
        THEN [ok |-> TRUE, directive |-> SubSeq(t, i + 1, e),
              rawValue |-> SubSeq(t, f + 1, g)]
        ELSE [ok |-> FALSE, directive |-> <<>>, rawValue |-> <<>>]

\* The alternation (string|number|boolean) of ARG_RE.
ArgTypes == {T_string, T_number, T_boolean}

\* The modifier group of ARG_RE, (\?|\.\.\.|(=.+)) anchored by $, on the
\* text after the whitespace that follows the closing quote: m[4] and m[5],
\* NULL for a group that did not take part.
MatchModifier(r) ==
    IF r = T_question THEN [ok |-> TRUE, m4 |-> r, m5 |-> NULL]
    ELSE IF r = T_ellipsis THEN [ok |-> TRUE, m4 |-> r, m5 |-> NULL]
    ELSE IF Len(r) >= 2 /\ r[1] = "=" /\ \A j \in 2..Len(r) : IsDot(r[j])
         THEN [ok |-> TRUE, m4 |-> r, m5 |-> r]
    ELSE [ok |-> FALSE, m4 |-> NULL, m5 |-> NULL]

\* value.match(ARG_RE), ARG_RE =
\* /^(\w[\w-]*)\s+(string|number|boolean)\s+"([^"]+)"(?:\s+(\?|\.\.\.|(=.+)))?$/
MatchArg(v) ==
    LET e1 == RunEnd(v, 1, "wordOrDash")
        e2 == RunEnd(v, e1 + 1, "space")
        tys == {ty \in ArgTypes : StartsWith(From(v, e2 + 1), ty)}
        ty == CHOOSE x \in tys : TRUE
        e3 == e2 + Len(ty)
        e4 == RunEnd(v, e3 + 1, "space")
        e5 == RunEnd(v, e4 + 2, "notQuote")
        q  == e5 + 1
        e6 == RunEnd(v, q + 1, "space")
        md == MatchModifier(From(v, e6 + 1))
        no == [ok |-> FALSE, m1 |-> <<>>, m2 |-> <<>>, m3 |-> <<>>,
               m4 |-> NULL, m5 |-> NULL]
    IN  IF /\ Len(v) >= 1 /\ IsWord(v[1])
           /\ e2 >= e1 + 1
           /\ tys /= {}
           /\ e4 >= e3 + 1
           /\ e4 + 1 <= Len(v) /\ v[e4 + 1] = "\""
           /\ e5 >= e4 + 2
           /\ q <= Len(v) /\ v[q] = "\""
        THEN LET hit == [ok |-> TRUE, m1 |-> SubSeq(v, 1, e1), m2 |-> ty,
                         m3 |-> SubSeq(v, e4 + 2, e5), m4 |-> NULL, m5 |-> NULL]
             IN  IF q = Len(v) THEN hit
                 ELSE IF e6 >= q + 1 /\ md.ok
                      THEN [hit EXCEPT !.m4 = md.m4, !.m5 = md.m5]
                      ELSE no
        ELSE no

\* value.match(ENV_RE), ENV_RE = /^(\w+)(?:\s+"([^"]+)")?$/
MatchEnv(v) ==
    LET e1 == RunEnd(v, 1, "word")
        e2 == RunEnd(v, e1 + 1, "space")
        e3 == RunEnd(v, e2 + 2, "notQuote")
    IN  IF Len(v) >= 1 /\ e1 >= 1
        THEN IF e1 = Len(v) THEN [ok |-> TRUE, m1 |-> v]
             ELSE IF /\ e2 >= e1 + 1
                     /\ e2 + 1 <= Len(v) /\ v[e2 + 1] = "\""
                     /\ e3 >= e2 + 2
                     /\ e3 + 1 = Len(v) /\ v[e3 + 1] = "\""
                  THEN [ok |-> TRUE, m1 |-> SubSeq(v, 1, e1)]
                  ELSE [ok |-> FALSE, m1 |-> <<>>]
        ELSE [ok |-> FALSE, m1 |-> <<>>]

(***************************************************************************)
(* parseScript                                                             *)
(***************************************************************************)

\* The record parseScript starts from.
InitMeta ==
    [name |-> NULL, description |-> NULL, args |-> <<>>, deps |-> <<>>,
     envs |-> <<>>, output |-> T_text, header |-> <<>>, category |-> NULL,
     tags |-> <<>>, author |-> NULL, platform |-> T_all, examples |-> <<>>,
     stdin |-> FALSE, version |-> NULL]

\* required: !m[4]
ArgRequired(m) == m.m4 = NULL

\* ...(m[4] === '...' ? { variadic: true } : {}) : the key is present only
\* for the ellipsis.
ArgVariadicPart(m) ==
    IF m.m4 = T_ellipsis THEN [variadic |-> TRUE] ELSE <<>>

\* Mutant of ArgDefaultPart: the equals sign is not sliced off.
ArgDefaultPartUnsliced(m) ==
    IF m.m5 /= NULL /\ m.m5 /= <<>> THEN [default |-> m.m5] ELSE <<>>

\* ...(m[5] ? { default: m[5].slice(1) } : {}) : the key is present only
\* for a modifier that starts with the equals sign.
ArgDefaultPart(m) ==
    IF m.m5 /= NULL /\ m.m5 /= <<>> THEN [default |-> From(m.m5, 2)] ELSE <<>>

\* The object pushed to meta.args for a match m of ARG_RE.
ArgSpec(m) ==
    [name |-> m.m1, type |-> m.m2, description |-> m.m3,
     required |-> ArgRequired(m)] @@ ArgVariadicPart(m) @@ ArgDefaultPart(m)

\* The switch of parseScript on the directive, applied to meta.
Dispatch(meta, directive, value) ==
    CASE directive = T_name -> [meta EXCEPT !.name = value]
      [] directive = T_description -> [meta EXCEPT !.description = value]
      [] directive = T_arg ->
            LET m == MatchArg(value)
            IN  IF m.ok THEN [meta EXCEPT !.args = Append(@, ArgSpec(m))]
                ELSE meta
      [] directive = T_dep -> [meta EXCEPT !.deps = Append(@, value)]
      [] directive = T_env ->
            LET em == MatchEnv(value)
            IN  IF em.ok THEN [meta EXCEPT !.envs = Append(@, em.m1)]
                ELSE meta
      [] directive = T_output -> [meta EXCEPT !.output = value]
      [] directive = T_header -> [meta EXCEPT !.header = SplitSpaces(value)]
      [] directive = T_category -> [meta EXCEPT !.category = value]
      [] directive = T_tag -> [meta EXCEPT !.tags = Append(@, value)]
      [] directive = T_author -> [meta EXCEPT !.author = value]
      [] directive = T_platform -> [meta EXCEPT !.platform = value]
      [] directive = T_example -> [meta EXCEPT !.examples = Append(@, value)]
      [] directive = T_stdin -> [meta EXCEPT !.stdin = (value = T_true)]
      [] directive = T_version -> [meta EXCEPT !.version = value]
      [] OTHER -> meta

\* Mutant of LineKind: a line that is neither blank nor a comment ends the
\* loop whether or not a directive has been seen.
LineKindBreaksEarly(seenDirective, line) ==
    LET trimmed == Trim(line)
    IN  IF StartsWith(trimmed, T_shebang) THEN "shebang"
        ELSE IF ~MatchDirective(trimmed).ok
             THEN IF trimmed /= <<>> /\ ~StartsWith(trimmed, T_hash)
                  THEN "break" ELSE "skip"
        ELSE "directive"

\* What one line does in the loop of parseScript:
\*   "shebang"   the line is skipped by the first test of the loop body;
\*   "skip"      no directive, the loop continues;
\*   "break"     no directive, the loop ends;
\*   "directive" a directive, dispatched.
LineKind(seenDirective, line) ==
    LET trimmed == Trim(line)
    IN  IF StartsWith(trimmed, T_shebang) THEN "shebang"
        ELSE IF ~MatchDirective(trimmed).ok
             THEN IF /\ seenDirective
                     /\ trimmed /= <<>>
                     /\ ~StartsWith(trimmed, T_hash)
                  THEN "break" ELSE "skip"
        ELSE "directive"

\* The meta after a directive line.
DirectiveLine(meta, line) ==
    LET match == MatchDirective(Trim(line))
    IN  Dispatch(meta, match.directive, Trim(match.rawValue))

\* The loop of parseScript over lines[i..], from meta and seenDirective.
RECURSIVE ScanFrom(_, _, _, _)
ScanFrom(lines, i, meta, seenDirective) ==
    IF i > Len(lines) THEN meta
    ELSE LET kind == LineKind(seenDirective, lines[i])
         IN  CASE kind = "break" -> meta
               [] kind = "directive" ->
                     ScanFrom(lines, i + 1, DirectiveLine(meta, lines[i]), TRUE)
               [] OTHER -> ScanFrom(lines, i + 1, meta, seenDirective)

\* parseScript(content)
ParseScript(content) == ScanFrom(SplitOn(content, "\n"), 1, InitMeta, FALSE)

(***************************************************************************)
(* Paths.  A path is the sequence of its components; a component, like any *)
(* file name, is a text.  The text of a path joins them with "/".          *)
(***************************************************************************)

N_repo == <<"r","e","p","o">>
N_tools == <<"t","o","o","l","s">>
N_scripts == <<"s","c","r","i","p","t","s">>
N_dotdot == <<".",".">>
T_slash == <<"/">>

\* path.join(dir, segment): ".." steps to the parent.
PathJoin(dir, segment) ==
    IF segment = N_dotdot THEN SubSeq(dir, 1, Len(dir) - 1)
    ELSE Append(dir, segment)

\* path.relative(from, to), as a text: up from `from` to the deepest common
\* ancestor, then down to `to`.
PathRelative(from, to) ==
    LET c == CHOOSE n \in 0..Len(from) :
                 /\ n <= Len(to)
                 /\ SubSeq(from, 1, n) = SubSeq(to, 1, n)
                 /\ (n = Len(from) \/ n = Len(to) \/ from[n + 1] /= to[n + 1])
    IN  Join([i \in 1..(Len(from) - c) |-> N_dotdot] \o From(to, c + 1), T_slash)

\* __dirname: the directory of tools/build-manifest.js in a checkout.
Dirname == <<N_repo, N_tools>>

\* const SCRIPTS_DIR = path.join(__dirname, '..', 'scripts')
ScriptsDir == PathJoin(PathJoin(Dirname, N_dotdot), N_scripts)

\* const repoRoot = path.join(__dirname, '..')
RepoRoot == PathJoin(Dirname, N_dotdot)

\* Mutant of WalkBase: the walked directory itself is the base.
WalkBaseScriptsDir == ScriptsDir

\* The base buildManifest hands to walkDir: walkDir(SCRIPTS_DIR, repoRoot).
WalkBase == RepoRoot

(***************************************************************************)
(* The directory trees and file contents the builder is run on             *)
(***************************************************************************)

N_a_sh == <<"a",".","s","h">>
N_c_sh == <<"c",".","s","h">>
N_t_sh == <<"_","t",".","s","h">>
N_r_md == <<"r",".","m","d">>
N_sub == <<"s","u","b">>
N_d_sh == <<"_","d",".","s","h">>

T_foo == <<"f","o","o">>
T_proto == <<"_","_","p","r","o","t","o","_","_">>

C_foo == <<"#","!","/","b","i","n","/","s","h","\n","#"," ","@","n","a","m","e"," ","f","o","o","\n","#"," ","@","d","e","s","c","r","i","p","t","i","o","n"," ","f","\n">>
C_bar == <<"#"," ","@","n","a","m","e"," ","b","a","r","\n","#"," ","@","d","e","s","c","r","i","p","t","i","o","n"," ","b","\n","#"," ","@","d","e","p"," ","j","q","\n">>
C_proto == <<"#"," ","@","n","a","m","e"," ","_","_","p","r","o","t","o","_","_","\n","#"," ","@","d","e","s","c","r","i","p","t","i","o","n"," ","p","\n">>
C_noname == <<"#"," ","@","d","e","s","c","r","i","p","t","i","o","n"," ","n","\n">>
C_nodesc == <<"#"," ","@","n","a","m","e"," ","b","a","z","\n">>
C_prose == <<"e","c","h","o"," ","h","i","\n">>
C_tpl == <<"#"," ","@","n","a","m","e"," ","t","p","l","\n","#"," ","@","d","e","s","c","r","i","p","t","i","o","n"," ","t","\n">>
C_doc == <<"#"," ","@","n","a","m","e"," ","d","o","c","\n","#"," ","@","d","e","s","c","r","i","p","t","i","o","n"," ","m","\n">>

\* The contents a script file of the tree may have.
Contents == {C_foo, C_bar, C_proto, C_noname, C_nodesc, C_prose}

FileNode(c) == [kind |-> "file", content |-> c]
DirNode == [kind |-> "dir", content |-> <<>>]

P_a == PathJoin(ScriptsDir, N_a_sh)
P_sub == PathJoin(ScriptsDir, N_sub)
P_sub_a == PathJoin(P_sub, N_a_sh)
P_d == PathJoin(P_sub, N_d_sh)
P_d_c == PathJoin(P_d, N_c_sh)
P_t == PathJoin(ScriptsDir, N_t_sh)
P_r == PathJoin(ScriptsDir, N_r_md)

\* A tree under SCRIPTS_DIR, as a function from the paths that exist to
\* their nodes: scripts/a.sh, scripts/sub/a.sh and scripts/sub/_d.sh/c.sh
\* with the given contents (NULL: no such file), beside a template file
\* _t.sh and a document r.md that both hold a complete directive block.
MkTree(ca, cb, cc) ==
    LET opt(path, c) == IF c = NULL THEN <<>> ELSE (path :> FileNode(c))
    IN  (P_sub :> DirNode) @@ (P_d :> DirNode)
            @@ (P_t :> FileNode(C_tpl)) @@ (P_r :> FileNode(C_doc))
            @@ opt(P_a, ca) @@ opt(P_sub_a, cb) @@ opt(P_d_c, cc)

Trees ==
    LET opts == Contents \cup {NULL}
    IN  {MkTree(ca, cb, cc) : ca \in opts, cb \in opts, cc \in opts}

\* The names in directory dir of tree t (what readdirSync lists).
Listing(t, dir) ==
    {q[Len(q)] : q \in {r \in DOMAIN t :
                          Len(r) = Len(dir) + 1 /\ SubSeq(r, 1, Len(dir)) = dir}}

(***************************************************************************)
(* State                                                                   *)
(***************************************************************************)

VARIABLES
    tree,       \* the files and directories under SCRIPTS_DIR
    disk,       \* the file at MANIFEST_PATH
    pc,         \* where the process is in buildManifest
    stack,      \* the active calls of walkDir, innermost last
    entries,    \* buildManifest: entries, the result of walkDir
    k,          \* buildManifest: position of the for loop in entries
    scripts,    \* buildManifest: scripts, its own enumerable properties
    errors,     \* buildManifest: errors
    failure,    \* the call that threw and ended the process, or "none"
    now,        \* the clock new Date() reads
    run,        \* how many times the builder has been started
    readLog,    \* history: the paths handed to readFileSync by this run
    listed,     \* history: the directories readdirSync listed in this run
    built,      \* history: the manifests the completed runs returned
    log,        \* what this run printed: the count and the warnings
    p_lines,    \* parseScript: lines
    p_i,        \* parseScript: position of the for loop in lines
    p_meta,     \* parseScript: meta
    p_seen,     \* parseScript: seenDirective
    p_pc        \* where a call of parseScript on its own is

buildVars == <<tree, disk, pc, stack, entries, k, scripts, errors, failure,
               now, run, readLog, listed, built, log>>
parseVars == <<p_lines, p_i, p_meta, p_seen, p_pc>>
vars == <<buildVars, parseVars>>

\* How many times the builder is started on the same tree.
MaxRuns == 2

\* version: 1 of the manifest.
ManifestVersion == 1

\* What MANIFEST_PATH holds: nothing, a manifest, or what a failed write
\* left of one.
NoFile == [kind |-> "none", data |-> <<>>]
PartialFile == [kind |-> "partial", data |-> <<>>]
ManifestFile(m) == [kind |-> "manifest", data |-> <<m>>]

\* A manifest.json left by an earlier build of another tree.
OldManifest == [version |-> ManifestVersion, updated |-> 0, scripts |-> <<>>]

(***************************************************************************)
(* walkDir                                                                 *)
(***************************************************************************)

\* Mutant of IsScriptName: the underscore test is missing.
IsScriptNameNoUnderscore(name) == EndsWith(name, T_sh)

\* entry.name.endsWith('.sh') && !entry.name.startsWith('_')
IsScriptName(name) == EndsWith(name, T_sh) /\ ~StartsWith(name, T_underscore)

\* entry.isDirectory()
IsDirectory(path) == tree[path].kind = "dir"

\* A call of walkDir(dir, base) after its readdirSync: the entries still to
\* iterate, in an order the file system chooses, and the result so far.
Frame(dir) == [dir |-> dir, todo |-> Listing(tree, dir), acc |-> <<>>]

Top == stack[Len(stack)]

\* The stack with entry `name` of the innermost call taken from its todo.
Taken(name) ==
    [stack EXCEPT ![Len(stack)].todo = @ \ {name}]

\* buildManifest calls walkDir(SCRIPTS_DIR, repoRoot); readdirSync lists it.
StartWalk ==
    /\ pc = "start"
    /\ stack' = <<Frame(ScriptsDir)>>
    /\ pc' = "walk"
    /\ listed' = {ScriptsDir}
    /\ UNCHANGED <<tree, disk, entries, k, scripts, errors, failure, now, run,
                   readLog, built, log, parseVars>>

\* readdirSync of SCRIPTS_DIR throws.
StartWalkFails ==
    /\ pc = "start"
    /\ pc' = "aborted"
    /\ failure' = "readdir"
    /\ UNCHANGED <<tree, disk, stack, entries, k, scripts, errors, now, run,
                   readLog, listed, built, log, parseVars>>

\* The next entry is a directory: walkDir(fullPath, base) is called.
EnterDirectory ==
    /\ pc = "walk"
    /\ \E name \in Top.todo :
        LET fullPath == PathJoin(Top.dir, name)
        IN  /\ IsDirectory(fullPath)
            /\ stack' = Append(Taken(name), Frame(fullPath))
    /\ listed' = listed \cup {stack'[Len(stack')].dir}
    /\ UNCHANGED <<tree, disk, pc, entries, k, scripts, errors, failure, now,
                   run, readLog, built, log, parseVars>>

\* The next entry is a directory and its readdirSync throws.
EnterDirectoryFails ==
    /\ pc = "walk"
    /\ \E name \in Top.todo : IsDirectory(PathJoin(Top.dir, name))
    /\ pc' = "aborted"
    /\ failure' = "readdir"
    /\ UNCHANGED <<tree, disk, stack, entries, k, scripts, errors, now, run,
                   readLog, listed, built, log, parseVars>>

\* The next entry is a script file: it is added to the result.
CollectScript ==
    /\ pc = "walk"
    /\ \E name \in Top.todo :
        LET fullPath == PathJoin(Top.dir, name)
        IN  /\ ~IsDirectory(fullPath)
            /\ IsScriptName(name)
            /\ stack' = [Taken(name) EXCEPT ![Len(stack)].acc =
                            Append(@, [fullPath |-> fullPath,
                                       relativePath |->
                                           PathRelative(WalkBase, fullPath)])]
    /\ UNCHANGED <<tree, disk, pc, entries, k, scripts, errors, failure, now,
                   run, readLog, listed, built, log, parseVars>>

\* The next entry is neither a directory nor a script file.
SkipEntry ==
    /\ pc = "walk"
    /\ \E name \in Top.todo :
        LET fullPath == PathJoin(Top.dir, name)
        IN  /\ ~IsDirectory(fullPath)
            /\ ~IsScriptName(name)
            /\ stack' = Taken(name)
    /\ UNCHANGED <<tree, disk, pc, entries, k, scripts, errors, failure, now,
                   run, readLog, listed, built, log, parseVars>>

\* An inner walkDir returns: entries.push(...walkDir(fullPath, base)).
ReturnWalk ==
    /\ pc = "walk"
    /\ Len(stack) > 1
    /\ Top.todo = {}
    /\ stack' = [SubSeq(stack, 1, Len(stack) - 1)
                    EXCEPT ![Len(stack) - 1].acc = @ \o Top.acc]
    /\ UNCHANGED <<tree, disk, pc, entries, k, scripts, errors, failure, now,
                   run, readLog, listed, built, log, parseVars>>

\* The outermost walkDir returns to buildManifest.
FinishWalk ==
    /\ pc = "walk"
    /\ Len(stack) = 1
    /\ Top.todo = {}
    /\ entries' = Top.acc
    /\ stack' = <<>>
    /\ k' = 1
    /\ pc' = "parse"
    /\ UNCHANGED <<tree, disk, scripts, errors, failure, now, run, readLog,
                   listed,
                   built, log, parseVars>>

(***************************************************************************)
(* buildManifest                                                           *)
(***************************************************************************)

\* !v for a value that is null or a text.
Falsy(v) == v = NULL \/ v = <<>>

\* Mutant of MoreEntries: the loop stops one entry early.
MoreEntriesOffByOne == k < Len(entries)

\* The for loop has an entry left.
MoreEntries == k <= Len(entries)

\* parseScript(fs.readFileSync(fullPath, 'utf8')) for the current entry.
CurrentMeta == ParseScript(tree[entries[k].fullPath].content)

\* Mutant of MissingNameError: the message of the other check.
MissingNameErrorSwapped(relativePath) == relativePath \o T_missingDescription

\* `${relativePath}: missing @name`
MissingNameError(relativePath) == relativePath \o T_missingName

\* `${relativePath}: missing @description`
MissingDescriptionError(relativePath) == relativePath \o T_missingDescription

\* The object literal assigned to scripts[meta.name].
ScriptEntry(meta, relativePath) ==
    [name |-> meta.name, description |-> meta.description, args |-> meta.args,
     deps |-> meta.deps, envs |-> meta.envs, output |-> meta.output,
     header |-> meta.header, category |-> meta.category, tags |-> meta.tags,
     author |-> meta.author, platform |-> meta.platform,
     examples |-> meta.examples, path |-> relativePath,
     version |-> meta.version]

\* scripts[key] = entry, on the own enumerable properties of scripts.
\* scripts is an object literal {}, so it inherits the accessor __proto__ of
\* Object.prototype: assigning an object to scripts['__proto__'] replaces
\* the prototype of scripts and creates no property.  Any other key is
\* created or overwritten.
AssignProperty(obj, key, entry) ==
    IF key = T_proto THEN obj ELSE (key :> entry) @@ obj

\* const manifest = { version: 1, updated: new Date().toISOString(), scripts }
\* Object.keys and JSON.stringify see the own enumerable properties only.
Manifest == [version |-> ManifestVersion, updated |-> now, scripts |-> scripts]

\* readFileSync throws on the current entry.
ReadFileFails ==
    /\ pc = "parse"
    /\ MoreEntries
    /\ pc' = "aborted"
    /\ failure' = "readFile"
    /\ UNCHANGED <<tree, disk, stack, entries, k, scripts, errors, now, run,
                   readLog, listed, built, log, parseVars>>

\* if (!meta.name) { errors.push(...); continue; }
RejectMissingName ==
    /\ pc = "parse"
    /\ MoreEntries
    /\ Falsy(CurrentMeta.name)
    /\ errors' = Append(errors, MissingNameError(entries[k].relativePath))
    /\ k' = k + 1
    /\ readLog' = Append(readLog, entries[k].fullPath)
    /\ UNCHANGED <<tree, disk, pc, stack, entries, scripts, failure, now, run,
                   listed, built, log, parseVars>>

\* if (!meta.description) { errors.push(...); continue; }
RejectMissingDescription ==
    /\ pc = "parse"
    /\ MoreEntries
    /\ ~Falsy(CurrentMeta.name)
    /\ Falsy(CurrentMeta.description)
    /\ errors' =
           Append(errors, MissingDescriptionError(entries[k].relativePath))
    /\ k' = k + 1
    /\ readLog' = Append(readLog, entries[k].fullPath)
    /\ UNCHANGED <<tree, disk, pc, stack, entries, scripts, failure, now, run,
                   listed, built, log, parseVars>>

\* scripts[meta.name] = { ... }
AcceptScript ==
    /\ pc = "parse"
    /\ MoreEntries
    /\ ~Falsy(CurrentMeta.name)
    /\ ~Falsy(CurrentMeta.description)
    /\ scripts' = AssignProperty(scripts, CurrentMeta.name,
                      ScriptEntry(CurrentMeta, entries[k].relativePath))
    /\ k' = k + 1
    /\ readLog' = Append(readLog, entries[k].fullPath)
    /\ UNCHANGED <<tree, disk, pc, stack, entries, errors, failure, now, run,
                   listed, built, log, parseVars>>

\* fs.writeFileSync(MANIFEST_PATH, JSON.stringify(manifest, null, 2) + '\n')
WriteManifest ==
    /\ pc = "parse"
    /\ ~MoreEntries
    /\ disk' = ManifestFile(Manifest)
    /\ pc' = "report"
    /\ UNCHANGED <<tree, stack, entries, k, scripts, errors, failure, now, run,
                   readLog, listed, built, log, parseVars>>

\* writeFileSync throws: before it opened the file, or after it truncated it.
WriteManifestFails ==
    /\ pc = "parse"
    /\ ~MoreEntries
    /\ disk' \in {disk, PartialFile}
    /\ pc' = "aborted"
    /\ failure' = "write"
    /\ UNCHANGED <<tree, stack, entries, k, scripts, errors, now, run, readLog,
                   listed,
                   built, log, parseVars>>

\* The count on stdout, the warnings on stderr, and return manifest.
Report ==
    /\ pc = "report"
    /\ log' = <<[count |-> Cardinality(DOMAIN scripts), warnings |-> errors]>>
    /\ built' = Append(built, Manifest)
    /\ pc' = "done"
    /\ UNCHANGED <<tree, disk, stack, entries, k, scripts, errors, failure,
                   now, run, readLog, listed, parseVars>>

\* A build has completed; the tool is started again on the same tree, later.
Rerun ==
    /\ pc = "done"
    /\ run < MaxRuns
    /\ run' = run + 1
    /\ now' = now + 1
    /\ pc' = "start"
    /\ stack' = <<>>
    /\ entries' = <<>>
    /\ k' = 1
    /\ scripts' = <<>>
    /\ errors' = <<>>
    /\ failure' = "none"
    /\ readLog' = <<>>
    /\ listed' = {}
    /\ log' = <<>>
    /\ UNCHANGED <<tree, disk, built, parseVars>>

\* A checkout with some tree under scripts/, with or without a manifest.json
\* of an earlier build, and the tool just started.
Init ==
    /\ tree \in Trees
    /\ disk \in {NoFile, ManifestFile(OldManifest)}
    /\ pc = "start"
    /\ stack = <<>>
    /\ entries = <<>>
    /\ k = 1
    /\ scripts = <<>>
    /\ errors = <<>>
    /\ failure = "none"
    /\ now = 1
    /\ run = 1
    /\ readLog = <<>>
    /\ listed = {}
    /\ built = <<>>
    /\ log = <<>>
    /\ p_lines = <<>>
    /\ p_i = 1
    /\ p_meta = InitMeta
    /\ p_seen = FALSE
    /\ p_pc = "idle"

Next ==
    \/ StartWalk
    \/ StartWalkFails
    \/ EnterDirectory
    \/ EnterDirectoryFails
    \/ CollectScript
    \/ SkipEntry
    \/ ReturnWalk
    \/ FinishWalk
    \/ ReadFileFails
    \/ RejectMissingName
    \/ RejectMissingDescription
    \/ AcceptScript
    \/ WriteManifest
    \/ WriteManifestFails
    \/ Report
    \/ Rerun

Spec == Init /\ [][Next]_vars

(***************************************************************************)
(* parseScript on its own: one call, one line of the loop at a time        *)
(***************************************************************************)

\* How many lines the parsed content has.
MaxLines == 3

T_slashes == <<"/","/">>
T_argPrefix == <<" ","@","a","r","g"," ">>
T_quote == <<"\"">>
T_space == <<" ">>

\* The modifiers an @arg line is given: none, the three of the grammar, a
\* default with a space in it and a default that reads like the ellipsis.
ArgMods == {<<>>, T_question, T_ellipsis, <<"=","5">>, <<"=","a"," ","b">>, <<"=",".",".",".">>}

A_name == <<"n","-","1">>
A_description == <<"n"," ","i","t","e","m","s">>

\* The remainder of an @arg line: name, type, quoted description, modifier.
ArgText(name, type, description, mod) ==
    name \o T_space \o type \o T_space \o T_quote \o description \o T_quote
         \o (IF mod = <<>> THEN <<>> ELSE T_space \o mod)

\* An @arg line under a comment marker.
ArgLine(marker, mod) ==
    marker \o T_argPrefix \o ArgText(A_name, T_number, A_description, mod)

\* The lines a content is made of: a shebang, a blank line, comments and
\* directives under either marker, code, well-formed and malformed @arg lines.
LineUniverse ==
    { <<"#","!","/","b","i","n","/","s","h">>,
      <<>>,
      <<"#"," ","n","o","t","e">>,
      <<"/","/"," ","n","o","t","e">>,
      <<"e","c","h","o"," ","h","i">>,
      <<"#"," ","@","n","a","m","e"," ","f","o","o">>,
      <<"/","/"," ","@","n","a","m","e"," ","b","a","r">>,
      <<" ","#","@","t","a","g"," "," ","x"," ","y"," ">>,
      <<"#"," ","@","a","r","g"," ","q"," ","s","t","r","i","n"," ","\"","x","\"">>,
      ArgLine(T_slashes, <<"=","5">>) }
    \cup {ArgLine(T_hash, mod) : mod \in ArgMods}

\* parseScript is called: const lines = content.split('\n'), meta and
\* seenDirective are initialised.  The builder is not running.
InitParse ==
    /\ \E ls \in [1..MaxLines -> LineUniverse] :
           p_lines = SplitOn(Join(ls, <<"\n">>), "\n")
    /\ p_i = 1
    /\ p_meta = InitMeta
    /\ p_seen = FALSE
    /\ p_pc = "scan"
    /\ tree = MkTree(NULL, NULL, NULL)
    /\ disk = NoFile
    /\ pc = "idle"
    /\ stack = <<>>
    /\ entries = <<>>
    /\ k = 1
    /\ scripts = <<>>
    /\ errors = <<>>
    /\ failure = "none"
    /\ now = 1
    /\ run = 1
    /\ readLog = <<>>
    /\ listed = {}
    /\ built = <<>>
    /\ log = <<>>

\* The loop is at a line.
AtLine == p_pc = "scan" /\ p_i <= Len(p_lines)

\* if (trimmed.startsWith('#!')) continue;
ParseShebang ==
    /\ AtLine
    /\ LineKind(p_seen, p_lines[p_i]) = "shebang"
    /\ p_i' = p_i + 1
    /\ UNCHANGED <<p_lines, p_meta, p_seen, p_pc, buildVars>>

\* if (!match) { ...; continue; }
ParseSkip ==
    /\ AtLine
    /\ LineKind(p_seen, p_lines[p_i]) = "skip"
    /\ p_i' = p_i + 1
    /\ UNCHANGED <<p_lines, p_meta, p_seen, p_pc, buildVars>>

\* if (!match) { if (seenDirective && ...) break; }  then return meta
ParseBreak ==
    /\ AtLine
    /\ LineKind(p_seen, p_lines[p_i]) = "break"
    /\ p_pc' = "done"
    /\ UNCHANGED <<p_lines, p_i, p_meta, p_seen, buildVars>>

\* seenDirective = true; switch (directive) { ... }
ParseDirective ==
    /\ AtLine
    /\ LineKind(p_seen, p_lines[p_i]) = "directive"
    /\ p_meta' = DirectiveLine(p_meta, p_lines[p_i])
    /\ p_seen' = TRUE
    /\ p_i' = p_i + 1
    /\ UNCHANGED <<p_lines, p_pc, buildVars>>

\* The loop has run out of lines: return meta.
ParseReturn ==
    /\ p_pc = "scan"
    /\ p_i > Len(p_lines)
    /\ p_pc' = "done"
    /\ UNCHANGED <<p_lines, p_i, p_meta, p_seen, buildVars>>

NextParse ==
    \/ ParseShebang
    \/ ParseSkip
    \/ ParseBreak
    \/ ParseDirective
    \/ ParseReturn

SpecParse == InitParse /\ [][NextParse]_vars

(***************************************************************************)
(* Vocabulary of the properties                                            *)
(***************************************************************************)

Range(seq) == {seq[i] : i \in DOMAIN seq}

Count(seq, x) == Cardinality({i \in DOMAIN seq : seq[i] = x})

BaseName(path) == path[Len(path)]

\* The eligible files of the tree: the files, at any depth, whose name ends
\* with .sh and does not begin with an underscore.
Eligible ==
    {f \in DOMAIN tree :
        /\ tree[f].kind = "file"
        /\ EndsWith(BaseName(f), T_sh)
        /\ ~StartsWith(BaseName(f), T_underscore)}

\* The directories of the tree, the scanned root included.
Directories == {ScriptsDir} \cup {d \in DOMAIN tree : tree[d].kind = "dir"}

\* What a file declares.
Declared(f) == ParseScript(tree[f].content)
HasName(f) == ~Falsy(Declared(f).name)
HasDescription(f) == ~Falsy(Declared(f).description)
Valid(f) == HasName(f) /\ HasDescription(f)

\* The path of a file relative to the scanned directory, as a text.
ScanRelative(f) == PathRelative(ScriptsDir, f)

\* The relative path the walk gave a file it found.
WalkRelative(f) ==
    LET i == CHOOSE j \in DOMAIN entries : entries[j].fullPath = f
    IN  entries[i].relativePath

\* The loop over entries has processed the entries before position k.
Processed == 1..(k - 1)

\* The run went through: the manifest is written and reported.
Completed == pc = "done"

\* Some entry of the scripts mapping has this path.
InManifest(path) == \E key \in DOMAIN scripts : scripts[key].path = path

(***************************************************************************)
(* C1  Missing @name and missing @description                              *)
(***************************************************************************)

\* C1: every processed file whose record has no name left exactly one error
\* "<relative-path>: missing @name", no other error and no entry; one that
\* has a name but no description left exactly one error
\* "<relative-path>: missing @description" and no entry; the loop reads the
\* files in the order of entries whatever it rejected, and a completed run
\* has read every eligible file.
C1_RejectionRecorded ==
    /\ \A i \in Processed :
        LET f == entries[i].fullPath
            rel == entries[i].relativePath
            nm == Count(errors, rel \o T_missingName)
            ds == Count(errors, rel \o T_missingDescription)
        IN  /\ ~HasName(f) => nm = 1 /\ ds = 0 /\ ~InManifest(rel)
            /\ HasName(f) /\ ~HasDescription(f) =>
                   nm = 0 /\ ds = 1 /\ ~InManifest(rel)
            /\ readLog[i] = f
    /\ Len(readLog) = Cardinality(Processed)
    /\ Completed => Range(readLog) = Eligible

\* A completed run that first rejected a file with neither directive, then
\* one with a name only, then accepted a script.
C1_Witness ==
    /\ Completed
    /\ Len(entries) = 3
    /\ tree[entries[1].fullPath].content = C_prose
    /\ tree[entries[2].fullPath].content = C_nodesc
    /\ errors = <<entries[1].relativePath \o T_missingName,
                  entries[2].relativePath \o T_missingDescription>>
    /\ Cardinality(DOMAIN scripts) = 1

(***************************************************************************)
(* C2  N valid, uniquely named scripts give N entries                      *)
(***************************************************************************)

\* Every eligible file declares a name and a description, and no two
\* declare the same name.
AllValidAndDistinct ==
    /\ \A f \in Eligible : Valid(f)
    /\ \A f, g \in Eligible : f /= g => Declared(f).name /= Declared(g).name

\* C2: a completed build of a tree whose eligible files are N valid scripts
\* with pairwise distinct names has exactly N entries, no error, and every
\* entry under the key equal to its own name.
C2_RoundTrip ==
    Completed /\ AllValidAndDistinct =>
        /\ Cardinality(DOMAIN scripts) = Cardinality(Eligible)
        /\ errors = <<>>
        /\ \A key \in DOMAIN scripts : scripts[key].name = key

(***************************************************************************)
(* C3  Two files with the same @name                                       *)
(***************************************************************************)

\* The valid entries that declare the name, by position in entries.
Declaring(name) ==
    {i \in DOMAIN entries :
        Valid(entries[i].fullPath) /\ Declared(entries[i].fullPath).name = name}

\* The position processed last among a set of positions.
Last(positions) == CHOOSE i \in positions : \A j \in positions : j <= i

\* C3: after a completed build, a name that two or more valid eligible files
\* declare has one entry, which holds the fields and the path of the file
\* processed last among them, and the errors are only those of the files
\* that lack a name or a description.
C3_LastWins ==
    Completed =>
        /\ \A i \in DOMAIN entries :
            LET name == Declared(entries[i].fullPath).name
                last == entries[Last(Declaring(name))]
            IN  Cardinality(Declaring(name)) >= 2 =>
                    /\ name \in DOMAIN scripts
                    /\ scripts[name] =
                           ScriptEntry(Declared(last.fullPath), last.relativePath)
        /\ Len(errors) = Cardinality({f \in Eligible : ~Valid(f)})

(***************************************************************************)
(* C4  The manifest and the error list partition the eligible files        *)
(***************************************************************************)

\* Some error names the path: it starts with the path and ": ".
InErrors(path) ==
    \E i \in DOMAIN errors : StartsWith(errors[i], path \o <<":", " ">>)

\* C4: after a completed build every entry is the data of a valid eligible
\* file, the printed warnings are the errors, and an eligible file has no
\* entry in the scripts mapping if and only if an error names its path.
C4_ExcludedIffReported ==
    Completed =>
        /\ \A key \in DOMAIN scripts :
            \E f \in Eligible :
                /\ Valid(f)
                /\ scripts[key] = ScriptEntry(Declared(f), WalkRelative(f))
        /\ log = <<[count |-> Cardinality(DOMAIN scripts), warnings |-> errors]>>
        /\ \A f \in Eligible :
            ~InManifest(WalkRelative(f)) <=> InErrors(WalkRelative(f))

(***************************************************************************)
(* C5  A read failure aborts the run before anything is written            *)
(***************************************************************************)

\* C5: a readdirSync or readFileSync that throws ends the run with the file
\* at MANIFEST_PATH as it was; an ended run never touches that file; and the
\* file changes only in a step taken after every directory of the tree was
\* listed and every eligible file was read and parsed, and then it holds the
\* manifest of all of them.
C5_NoWriteOnReadFailure ==
    [][ /\ (failure = "none" /\ failure' \in {"readdir", "readFile"}) =>
               pc' = "aborted" /\ disk' = disk
        /\ pc \in {"aborted", "done"} => disk' = disk
        /\ disk' /= disk =>
               /\ listed = Directories
               /\ Range(readLog) = Eligible
               /\ Len(readLog) = Len(entries)
               /\ disk' \in {ManifestFile(Manifest), PartialFile}
      ]_vars

\* A run that ended on readFileSync after it had accepted a script, with
\* the manifest of the earlier build still at MANIFEST_PATH.
C5_Witness ==
    /\ pc = "aborted"
    /\ failure = "readFile"
    /\ DOMAIN scripts /= {}
    /\ disk = ManifestFile(OldManifest)

(***************************************************************************)
(* C6  Which files are read                                                *)
(***************************************************************************)

\* The texts a file that is not eligible could put into the output: its
\* relative path, at the start of an error, or its path in an entry.
Leaks(f) ==
    \/ InErrors(PathRelative(WalkBase, f))
    \/ InManifest(PathRelative(WalkBase, f))

\* C6: only eligible files are ever read and only directories of the tree
\* are listed; no file that is not eligible has an entry or an error; and a
\* completed build has listed every directory and read every eligible file,
\* each once.
C6_ExactlyEligibleRead ==
    /\ Range(readLog) \subseteq Eligible
    /\ listed \subseteq Directories
    /\ \A f \in DOMAIN tree : tree[f].kind = "file" /\ f \notin Eligible =>
           ~Leaks(f)
    /\ Completed =>
        /\ Range(readLog) = Eligible
        /\ Len(readLog) = Cardinality(Eligible)
        /\ listed = Directories

\* A completed build that read the script three levels down, under the
\* directory _d.sh, and the one beside _t.sh and r.md.
C6_Witness ==
    /\ Completed
    /\ Range(readLog) = {P_a, P_d_c}
    /\ P_t \in DOMAIN tree /\ P_r \in DOMAIN tree
    /\ Cardinality(DOMAIN scripts) = 2

(***************************************************************************)
(* C7  The base of the relative paths                                      *)
(***************************************************************************)

\* The location of a file relative to the repository root, the parent of
\* the directory the build walks: "scripts/" and the location relative to
\* the walked directory.
RepoRelative(f) == N_scripts \o T_slash \o ScanRelative(f)

\* The location of a file relative to the walked directory (base "scan") or
\* to the repository root (base "repo").
Location(base, f) == IF base = "scan" THEN ScanRelative(f) ELSE RepoRelative(f)

\* Every entry and every error carries, as its path, the location of the
\* file it came from relative to the base, and the walk gave every processed
\* file that location.
PathsAre(base) ==
    /\ \A key \in DOMAIN scripts :
        \E i \in Processed :
            /\ Declared(entries[i].fullPath).name = key
            /\ scripts[key].path = Location(base, entries[i].fullPath)
    /\ \A j \in DOMAIN errors :
        \E i \in Processed :
            LET loc == Location(base, entries[i].fullPath)
            IN  \/ /\ ~HasName(entries[i].fullPath)
                   /\ errors[j] = loc \o T_missingName
                \/ /\ ~HasDescription(entries[i].fullPath)
                   /\ errors[j] = loc \o T_missingDescription
    /\ \A i \in Processed :
           entries[i].relativePath = Location(base, entries[i].fullPath)

\* C7 as stated: the path of every entry, and the path in every error, is
\* the location of its file relative to the directory the build walks.
C7_RelativeToScanRoot == PathsAre("scan")

\* C7 amended: the path of every entry, and the path in every error, is the
\* location of its file relative to the repository root, the base handed to
\* the walk, which is the parent of the directory the build walks; so every
\* path starts with "scripts/", at every depth.
C7_RelativeToRepoRoot == PathsAre("repo")

\* A completed build with an entry for the script three levels down and an
\* error for the one at the top.
C7_Witness ==
    /\ Completed
    /\ InManifest(RepoRelative(P_d_c))
    /\ InErrors(RepoRelative(P_a))
    /\ Len(ScanRelative(P_d_c)) > Len(N_c_sh)

(***************************************************************************)
(* C8  The comment marker of a directive line                              *)
(***************************************************************************)

\* The trimmed line starts with the marker //.
SlashLine(line) == StartsWith(Trim(line), T_slashes)

\* The line with a leading marker // rewritten as #.
HashForm(line) ==
    IF SlashLine(line) THEN T_hash \o From(Trim(line), 3) ELSE line

\* C8 as stated: the record parseScript returns is the one it returns for
\* the same content with every // marker written as #, so a // directive
\* populates the record as the # directive does and a // comment does not
\* end the scan.
C8_EitherMarker ==
    p_pc = "done" =>
        p_meta = ScanFrom([i \in DOMAIN p_lines |-> HashForm(p_lines[i])],
                          1, InitMeta, FALSE)

\* C8 amended: parseScript recognizes a directive line under the marker #
\* only.  A line whose trimmed text starts with // never changes the record
\* nor counts as a directive: before the first directive it is skipped, and
\* once a directive has been seen it ends the scan.
C8_OnlyHashMarker ==
    [][ AtLine /\ SlashLine(p_lines[p_i]) =>
            /\ p_meta' = p_meta
            /\ p_seen' = p_seen
            /\ IF p_seen THEN p_pc' = "done" /\ p_i' = p_i
               ELSE p_pc' = "scan" /\ p_i' = p_i + 1
      ]_vars

\* A scan that skipped "// @name bar", took the name from "# @name foo" and
\* ended at the comment "// note".
C8_Witness ==
    /\ p_pc = "done"
    /\ p_lines = << <<"/","/"," ","@","n","a","m","e"," ","b","a","r">>,
                    <<"#"," ","@","n","a","m","e"," ","f","o","o">>,
                    <<"/","/"," ","n","o","t","e">> >>
    /\ p_i = 3
    /\ p_meta.name = T_foo

(***************************************************************************)
(* C9  The modifier of an @arg line                                        *)
(***************************************************************************)

\* The loop is at the @arg line with this modifier, under the marker #.
AtArgLine(mod) == AtLine /\ p_lines[p_i] = ArgLine(T_hash, mod)

Has(a, key) == key \in DOMAIN a

\* What C9 says of the ArgSpec a of a line with modifier mod.  With a
\* default modifier, variadic is false (asStated) or the key is absent.
ArgSpecOf(mod, a, asStated) ==
    CASE mod = <<>> -> a.required = TRUE
      [] mod = T_question ->
            /\ a.required = FALSE
            /\ ~Has(a, "default")
            /\ ~(Has(a, "variadic") /\ a.variadic = TRUE)
      [] mod = T_ellipsis ->
            /\ Has(a, "variadic") /\ a.variadic = TRUE
            /\ a.required = FALSE
            /\ ~Has(a, "default")
      [] OTHER ->
            /\ a.required = FALSE
            /\ Has(a, "default") /\ a.default = From(mod, 2)
            /\ IF asStated THEN Has(a, "variadic") /\ a.variadic = FALSE
               ELSE ~Has(a, "variadic")

\* The step at an @arg line pushes one ArgSpec, with the name, type and
\* description of the line and what C9 says for its modifier.
PushesArgSpec(asStated) ==
    \A mod \in ArgMods :
        AtArgLine(mod) =>
            /\ Len(p_meta'.args) = Len(p_meta.args) + 1
            /\ LET a == p_meta'.args[Len(p_meta'.args)]
               IN  /\ a.name = A_name /\ a.type = T_number
                   /\ a.description = A_description
                   /\ ArgSpecOf(mod, a, asStated)

\* C9 as stated: no modifier gives required = true; "=v" gives required =
\* false, default = v and variadic = false; "..." gives variadic = true,
\* required = false and no default; "?" gives required = false, no default
\* and variadic not true.
C9_ModifierAsStated == [][PushesArgSpec(TRUE)]_vars

\* C9 amended: the same, but with "=v" the ArgSpec has no variadic key at
\* all (variadic is absent, not false).
C9_ModifierAbsentVariadic == [][PushesArgSpec(FALSE)]_vars

\* A finished scan of three @arg lines: a default, the ellipsis, no modifier.
C9_Witness ==
    /\ p_pc = "done"
    /\ p_lines = <<ArgLine(T_hash, <<"=","a"," ","b">>), ArgLine(T_hash, T_ellipsis),
                   ArgLine(T_hash, <<>>)>>
    /\ Len(p_meta.args) = 3
    /\ p_meta.args[1].default = <<"a"," ","b">>
    /\ p_meta.args[2].variadic
    /\ p_meta.args[3].required

(***************************************************************************)
(* C10  Two builds of the same tree                                        *)
(***************************************************************************)

\* C10: the manifests of any two completed builds of the tree have the same
\* version and the same scripts mapping.
C10_Idempotent ==
    \A i, j \in DOMAIN built :
        /\ built[i].version = built[j].version
        /\ built[i].scripts = built[j].scripts

(***************************************************************************)
(* C11  The directive block as one contiguous header region                *)
(***************************************************************************)

\* The trimmed line is empty.
IsBlank(line) == Trim(line) = <<>>

\* The trimmed line starts with the comment marker #.
IsComment(line) == StartsWith(Trim(line), T_hash)

\* The trimmed line matches the directive pattern.
IsDirective(line) == MatchDirective(Trim(line)).ok

\* An @arg directive line whose remainder fails the arg grammar.
IsMalformedArg(line) ==
    LET match == MatchDirective(Trim(line))
    IN  /\ match.ok
        /\ match.directive = T_arg
        /\ ~MatchArg(Trim(match.rawValue)).ok

\* A directive line has matched on a line before the one the loop is at.
DirectiveBefore(lines, i) == \E j \in 1..(i - 1) : IsDirective(lines[j])

\* The line that ends the header region: the first line that is neither
\* blank nor a comment and has a directive line before it, one past the
\* last line when there is none.
HeaderEnd(lines) ==
    LET ends == {i \in 1..Len(lines) :
                     /\ ~IsBlank(lines[i]) /\ ~IsComment(lines[i])
                     /\ DirectiveBefore(lines, i)}
    IN  IF ends = {} THEN Len(lines) + 1
        ELSE CHOOSE i \in ends : \A h \in ends : i <= h

\* The record made by the directive lines among lines[1..n], in order.
RECURSIVE HeaderRecord(_, _)
HeaderRecord(lines, n) ==
    IF n = 0 THEN InitMeta
    ELSE LET before == HeaderRecord(lines, n - 1)
         IN  IF IsDirective(lines[n]) THEN DirectiveLine(before, lines[n])
             ELSE before

\* The loop goes on to the next line.
Continues == p_pc' = "scan" /\ p_i' = p_i + 1

\* What C11 says of one step of the loop.
HeaderStep ==
    /\ AtLine =>
          LET line == p_lines[p_i]
              seen == DirectiveBefore(p_lines, p_i)
          IN  /\ ~seen /\ ~IsDirective(line) =>
                     Continues /\ p_meta' = p_meta
              /\ seen /\ ~IsBlank(line) /\ ~IsComment(line) =>
                     p_pc' = "done" /\ p_meta' = p_meta
              /\ seen /\ ~IsDirective(line)
                       /\ (IsBlank(line) \/ IsComment(line)) =>
                     Continues /\ p_meta' = p_meta
              /\ IsDirective(line) =>
                     Continues /\ DirectiveBefore(p_lines', p_i')
              /\ IsMalformedArg(line) =>
                     Continues /\ p_meta' = p_meta
    /\ p_pc' = "done" =>
          p_meta' = HeaderRecord(p_lines, HeaderEnd(p_lines) - 1)

\* C11: parseScript treats the directive block as one contiguous header
\* region.  Before any directive line has matched, a line that does not match
\* (blank, shebang, comment or code) is skipped and the scan goes on.  Once a
\* directive line has matched, the first line that is neither blank nor a
\* comment (a line starting with #) ends the scan, blank lines and comments
\* that are no directive do not, and the record returned is the one made by
\* the directive lines before that line only.  An @arg line that fails the
\* arg grammar leaves the record as it is, counts as a matched directive and
\* lets the scan go on.
C11_ContiguousHeader == [][HeaderStep]_vars

\* A finished scan of a malformed @arg line, a line of code and "# @name
\* foo": the scan ended at the code, so the malformed line counted as a
\* directive, and the name below the code is not in the record.
C11_Witness ==
    /\ p_pc = "done"
    /\ p_lines = << <<"#"," ","@","a","r","g"," ","q"," ","s","t","r","i","n"," ","\"","x","\"">>,
                    <<"e","c","h","o"," ","h","i">>,
                    <<"#"," ","@","n","a","m","e"," ","f","o","o">> >>
    /\ p_i = 2
    /\ p_meta = InitMeta

====
